---- MODULE Spec2Model ----
(***************************************************************************)
(* Format detection and extraction core of the MileSplit results scraper.  *)
(*                                                                         *)
(*   src/get_milesplit_formatted_meet_results.py  detectors, wranglers,    *)
(*        extract_table_data, extract_table_data_wrapped,                  *)
(*        process_urls_and_save_wrapped                                    *)
(*   src/detect_adam.py                           the standalone detector  *)
(*                                                                         *)
(* A page is modelled by what the code reads from it: the landmarks the    *)
(* detectors look up, the counts their regular expressions and DOM scans   *)
(* produce, the token lines of the first pre block and the cells of the    *)
(* table elements.                                                         *)
(***************************************************************************)
EXTENDS Integers, Sequences, FiniteSets, TLC

VARIABLES
    \* ---- one call of extract_table_data_wrapped (Spec)
    page,       \* the page handed to the dispatcher
    out,        \* the result of the call
    pc,         \* "call" before the call, "returned" or "raised" after it
    \* ---- one run of a detector (SpecDetect)
    dname,      \* the detector that runs
    dev,        \* what its scans find on the page
    dscore,     \* the score it returned
    dpc,        \* "ready" before the run, "returned" after it
    \* ---- one run of an extractor (SpecExtract)
    doc,        \* the page handed to the extractor
    xname,      \* the extractor that ran
    xout,       \* the frames it returned
    xpc,        \* "ready" before the run, "returned" after it
    \* ---- one run of process_urls_and_save_wrapped (SpecBatch)
    urls,       \* the list of URLs: the page each serves, the calls that raise
    done,       \* number of URLs the loop has finished
    individual_results, team_results, metadata_results,
    bpc         \* "loop" inside the for loop, "returned" after it

dispVars  == <<page, out, pc>>
detVars   == <<dname, dev, dscore, dpc>>
extVars   == <<doc, xname, xout, xpc>>
batchVars == <<urls, done, individual_results, team_results,
               metadata_results, bpc>>
vars == <<dispVars, detVars, extVars, batchVars>>

\* the value of the variables a specification does not use
Idle == "idle"

None == "None"

------------------------------------------------------------------------------
(***************************************************************************)
(* Python floats.  A score is the float the code holds: m is its value in  *)
(* thousandths, u the distance in units of least precision between the     *)
(* float and the double nearest to m/1000 (the value a literal such as     *)
(* 0.70 denotes).  Sums and products of the detectors are exact in m; the  *)
(* tables below list the IEEE-754 binary64 operations of the detectors     *)
(* whose result is not the double nearest to the decimal result.           *)
(***************************************************************************)
F(m) == [m |-> m, u |-> 0]

FLess(x, y) == x.m < y.m \/ (x.m = y.m /\ x.u < y.u)
FLeq(x, y)  == x = y \/ FLess(x, y)
FGeq(x, y)  == FLeq(y, x)

AddUlp(x, y) ==
    CASE x = F(200) /\ y = F(100) -> 1                  \* 0.30000000000000004
      [] x = F(400) /\ y = F(200) -> 1                  \* 0.6000000000000001
      [] x = [m |-> 600, u |-> 1] /\ y = F(150) -> 1    \* 0.7500000000000001
      [] x = F(700) /\ y = F(100) -> -1                 \* 0.7999999999999999
      [] x = F(700) /\ y = F(200) -> -1                 \* 0.8999999999999999
      [] x = [m |-> 900, u |-> -1] /\ y = F(100) -> -1  \* 0.9999999999999999
      [] x = [m |-> 900, u |-> -1] /\ y = F(150) -> -1  \* 1.0499999999999998
      [] x = F(600) /\ y = F(300) -> -1                 \* 0.8999999999999999
      [] x = F(600) /\ y = F(60) -> -1                  \* 0.6599999999999999
      [] x = F(780) /\ y = F(50) -> 1                   \* 0.8300000000000001
      [] x = F(800) /\ y = F(50) -> 1                   \* 0.8500000000000001
      [] x = F(800) /\ y = F(60) -> 1                   \* 0.8600000000000001
      [] x = [m |-> 860, u |-> 1] /\ y = F(50) -> 1     \* 0.9100000000000001
      [] x = F(920) /\ y = F(50) -> 1                   \* 0.9700000000000001
      [] x = F(1100) /\ y = F(50) -> 1                  \* 1.1500000000000001
      [] OTHER -> 0

FAdd(x, y) == [m |-> x.m + y.m, u |-> AddUlp(x, y)]

MulUlp(x, y) ==
    CASE y = F(400) /\ x = F(200) -> 1
      [] y = F(400) /\ x = F(350) -> -1
      [] y = F(400) /\ x = F(400) -> 1
      [] y = F(400) /\ x = F(550) -> 1
      [] y = F(400) /\ x = F(700) -> -1
      [] y = F(400) /\ x = [m |-> 1050, u |-> -1] -> -1
      [] y = F(300) /\ x = [m |-> 600, u |-> 1] -> 1
      [] y = F(300) /\ x = [m |-> 750, u |-> 1] -> 1
      [] y = F(300) /\ x = [m |-> 800, u |-> -1] -> -1
      [] y = F(300) /\ x = [m |-> 900, u |-> -1] -> -1
      [] y = F(300) /\ x = [m |-> 1050, u |-> -1] -> -1
      [] OTHER -> 0

FMul(x, y) == [m |-> (x.m * y.m) \div 1000, u |-> MulUlp(x, y)]

\* min(score, 1.0)
FMin(x, y) == IF FLess(y, x) THEN y ELSE x

------------------------------------------------------------------------------
(***************************************************************************)
(* Detectors of src/get_milesplit_formatted_meet_results.py.  The evidence *)
(* record e holds the landmarks and the counts the detector computes:      *)
(*   results_body    an element with id or class meetResultsBody exists    *)
(*   pre_blocks      number of pre elements inside it                      *)
(*   numeric_grades, times, place_markers, grade_tokens                    *)
(*                   len() of the findall results over the pre text        *)
(*   team_scores     re.search(r'Team\s+Scores') found a match             *)
(***************************************************************************)
\* detect_cole without the penalty for FR/SO/JR/SR tokens
detect_cole_nopenalty(e) ==
    IF ~e.results_body THEN F(0)
    ELSE IF e.pre_blocks = 0 THEN F(0)
    ELSE
      LET s0 == F(0)
          s1 == IF e.numeric_grades >= 5 THEN FAdd(s0, F(700))
                ELSE IF e.numeric_grades >= 2 THEN FAdd(s0, F(400))
                ELSE s0
          s2 == IF e.times >= 8 THEN FAdd(s1, F(200))
                ELSE IF e.times >= 4 THEN FAdd(s1, F(100))
                ELSE s1
          s3 == IF e.place_markers >= 5 THEN FAdd(s2, F(150)) ELSE s2
      IN  FMin(s3, F(1000))

detect_cole_nocap(e) ==
    IF ~e.results_body THEN F(0)
    ELSE IF e.pre_blocks = 0 THEN F(0)
    ELSE
      LET s0 == F(0)
          s1 == IF e.numeric_grades >= 5 THEN FAdd(s0, F(700))
                ELSE IF e.numeric_grades >= 2 THEN FAdd(s0, F(400))
                ELSE s0
          s2 == IF e.times >= 8 THEN FAdd(s1, F(200))
                ELSE IF e.times >= 4 THEN FAdd(s1, F(100))
                ELSE s1
          s3 == IF e.place_markers >= 5 THEN FAdd(s2, F(150)) ELSE s2
          s4 == IF e.grade_tokens >= 3 THEN FMul(s3, F(300)) ELSE s3
      IN  s4

detect_cole(e) ==
    IF ~e.results_body THEN F(0)
    ELSE IF e.pre_blocks = 0 THEN F(0)
    ELSE
      LET s0 == F(0)
          s1 == IF e.numeric_grades >= 5 THEN FAdd(s0, F(700))
                ELSE IF e.numeric_grades >= 2 THEN FAdd(s0, F(400))
                ELSE s0
          s2 == IF e.times >= 8 THEN FAdd(s1, F(200))
                ELSE IF e.times >= 4 THEN FAdd(s1, F(100))
                ELSE s1
          s3 == IF e.place_markers >= 5 THEN FAdd(s2, F(150)) ELSE s2
          s4 == IF e.grade_tokens >= 3 THEN FMul(s3, F(300)) ELSE s3
      IN  FMin(s4, F(1000))

detect_max(e) ==
    IF ~e.results_body THEN F(0)
    ELSE IF e.pre_blocks = 0 THEN F(0)
    ELSE
      LET s0 == F(0)
          s1 == IF e.grade_tokens >= 8 THEN FAdd(s0, F(700))
                ELSE IF e.grade_tokens >= 4 THEN FAdd(s0, F(500))
                ELSE IF e.grade_tokens >= 1 THEN FAdd(s0, F(200))
                ELSE s0
          s2 == IF e.times >= 5 THEN FAdd(s1, F(200)) ELSE s1
          s3 == IF e.team_scores THEN FAdd(s2, F(150)) ELSE s2
          s4 == IF e.numeric_grades >= 3 THEN FMul(s3, F(400)) ELSE s3
      IN  FMin(s4, F(1000))

(***************************************************************************)
(*   container_tables   number of table elements inside meetResultsBody    *)
(*   best_header_match  largest number of expected headers among the first *)
(*                      row's cell texts, over tables with >= 2 rows whose *)
(*                      first row has >= 4 cells                           *)
(*   data_rows          number of rows with >= 4 td cells in the first     *)
(*                      table that has at least 5 of them (0 when none)    *)
(***************************************************************************)
detect_adam(e) ==
    IF ~e.results_body THEN F(0)
    ELSE IF e.container_tables = 0 THEN F(0)
    ELSE
      LET s0 == F(0)
          s1 == FAdd(s0, F(300))
          s2 == IF e.best_header_match >= 4 THEN FAdd(s1, F(500))
                ELSE IF e.best_header_match >= 3 THEN FAdd(s1, F(300))
                ELSE IF e.best_header_match >= 2 THEN FAdd(s1, F(200))
                ELSE s1
          s3 == IF e.data_rows >= 10 THEN FAdd(s2, F(200))
                ELSE IF e.data_rows >= 5 THEN FAdd(s2, F(100))
                ELSE s2
      IN  FMin(s3, F(1000))

(***************************************************************************)
(*   tables           number of table elements anywhere in the document    *)
(*   best_hit         largest number of required class names among the     *)
(*                    lower-cased cell classes of one table                *)
(*   has_event_table  some table carries a class containing "eventtable"   *)
(*   links            len(soup.select("table tbody a[href]"))              *)
(***************************************************************************)
detect_katie(e) ==
    IF e.tables = 0 THEN F(0)
    ELSE
      LET s0 == F(0)
          s1 == IF e.best_hit >= 5 THEN FAdd(s0, F(700))
                ELSE IF e.best_hit >= 3 THEN FAdd(s0, F(500))
                ELSE IF e.best_hit >= 1 THEN FAdd(s0, F(200))
                ELSE s0
          s2 == IF e.has_event_table THEN FAdd(s1, F(200)) ELSE s1
          s3 == IF e.links >= 5 THEN FAdd(s2, F(100)) ELSE s2
      IN  FMin(s3, F(1000))

------------------------------------------------------------------------------
(***************************************************************************)
(* Preformatted text.  The text of a pre block is a sequence of lines, a   *)
(* line a sequence of whitespace-separated tokens [k, v]:                  *)
(*   "num"     digits only                     v = the digits              *)
(*   "numdot"  digits followed by one dot      v = the digits              *)
(*   "word"    two or more letters, first one upper case   v = the word    *)
(*   "time"    mm:ss or mm:ss.ff               v = the text                *)
(*   "other"   anything else that starts with no digit-dot prefix          *)
(* _normalize_whitespace only changes the separators, so it is the         *)
(* identity on token sequences; flattening a text joins its lines.  Digit  *)
(* texts have no leading zero or sign, so int() of one is written as the   *)
(* text itself.                                                            *)
(***************************************************************************)
\* pd.NA in a numeric column
NA == "NA"

Min(S) == CHOOSE x \in S : \A y \in S : x <= y
Max(S) == CHOOSE x \in S : \A y \in S : x >= y

RECURSIVE Flatten(_)
Flatten(lines) ==
    IF lines = <<>> THEN <<>> ELSE Head(lines) \o Flatten(Tail(lines))

Texts(toks) == [i \in 1..Len(toks) |-> toks[i].v]

\* index of the first token at or after s that is not a word, Len+1 if none
FirstNonWord(toks, s) ==
    LET S == {i \in s..Len(toks) : toks[i].k # "word"}
    IN  IF S = {} THEN Len(toks) + 1 ELSE Min(S)

IndividualRow(place, athlete, grade, team, finish, point) ==
    [place |-> place, video |-> None, athlete |-> athlete, grade |-> grade,
     team |-> team, finish |-> finish, point |-> point]

(***************************************************************************)
(* The line pattern of wrangle_cole, anchored at both ends:                *)
(*   place[.] [grade] name+ time [tag] team+                               *)
(* name and team are runs of words; the optional tag group is tried first, *)
(* so it takes the first word after the time whenever a team word is left. *)
(* The result is <<>> (no match) or a one-row sequence.                    *)
(***************************************************************************)
cole_line_pattern(toks) ==
    IF Len(toks) = 0 \/ toks[1].k \notin {"num", "numdot"} THEN <<>>
    ELSE
      LET g == Len(toks) >= 2 /\ toks[2].k = "num"
          s == IF g THEN 3 ELSE 2
          e == FirstNonWord(toks, s)
      IN  IF e = s \/ e > Len(toks) THEN <<>>
          ELSE IF toks[e].k # "time" THEN <<>>
          ELSE
            LET rest == SubSeq(toks, e + 1, Len(toks))
            IN  IF rest = <<>> \/ \E i \in 1..Len(rest) : rest[i].k # "word"
                THEN <<>>
                ELSE << IndividualRow(
                          toks[1].v,
                          Texts(SubSeq(toks, s, e - 1)),
                          IF g THEN toks[2].v ELSE NA,
                          Texts(IF Len(rest) >= 2 THEN Tail(rest) ELSE rest),
                          toks[e].v,
                          NA) >>

(***************************************************************************)
(* The packed pattern of wrangle_cole, tried at token i of the flattened   *)
(* text:  place. [grade] name+ time [tag] team+  followed by the next      *)
(* "digits." token or the end of the text.  ok tells whether it matched,   *)
(* last is the index of the last token it consumed.                        *)
(***************************************************************************)
packed_pattern(toks, i) ==
    IF toks[i].k # "numdot" THEN [ok |-> FALSE]
    ELSE
      LET g == Len(toks) >= i + 1 /\ toks[i + 1].k = "num"
          s == IF g THEN i + 2 ELSE i + 1
          e == FirstNonWord(toks, s)
      IN  IF e = s \/ e > Len(toks) THEN [ok |-> FALSE]
          ELSE IF toks[e].k # "time" THEN [ok |-> FALSE]
          ELSE
            LET w == FirstNonWord(toks, e + 1)
            IN  IF w = e + 1 THEN [ok |-> FALSE]
                ELSE IF w <= Len(toks) /\ toks[w].k # "numdot"
                THEN [ok |-> FALSE]
                ELSE [ok |-> TRUE,
                      last |-> w - 1,
                      row |-> IndividualRow(
                          toks[i].v,
                          Texts(SubSeq(toks, s, e - 1)),
                          IF g THEN toks[i + 1].v ELSE NA,
                          Texts(SubSeq(toks,
                                       IF w - 1 >= e + 2 THEN e + 2 ELSE e + 1,
                                       w - 1)),
                          toks[e].v,
                          NA)]

\* packed_pattern.finditer(flat): non-overlapping matches, left to right
RECURSIVE packed_finditer(_, _)
packed_finditer(toks, i) ==
    IF i > Len(toks) THEN <<>>
    ELSE LET m == packed_pattern(toks, i)
         IN  IF m.ok THEN <<m.row>> \o packed_finditer(toks, m.last + 1)
             ELSE packed_finditer(toks, i + 1)

RECURSIVE cole_line_rows(_)
cole_line_rows(lines) ==
    IF lines = <<>> THEN <<>>
    ELSE cole_line_pattern(Head(lines)) \o cole_line_rows(Tail(lines))

\* wrangle_cole keeping the line-based rows from two rows on
wrangle_cole_two_rows(p) ==
    IF ~p.results_div THEN <<>>
    ELSE IF p.pre_blocks = 0 THEN <<>>
    ELSE LET rows == cole_line_rows(p.pre)
         IN  IF Len(rows) >= 2 THEN rows
             ELSE packed_finditer(Flatten(p.pre), 1)

(***************************************************************************)
(* wrangle_cole.  p.results_div: a div with id or class meetResultsBody    *)
(* exists; p.pre_blocks: number of pre elements in the container; p.pre:   *)
(* the lines of the first of them.                                         *)
(***************************************************************************)
wrangle_cole(p) ==
    IF ~p.results_div THEN <<>>
    ELSE IF p.pre_blocks = 0 THEN <<>>
    ELSE LET rows == cole_line_rows(p.pre)
         IN  IF Len(rows) >= 3 THEN rows
             ELSE packed_finditer(Flatten(p.pre), 1)

(***************************************************************************)
(* wrangle_max.  The text is flattened before it is split into sections,   *)
(* so section.splitlines() yields the section itself as its only line.     *)
(* A section starts at every word from which a run of words leads to       *)
(* "Boys" or "Girls" (the look-ahead of re.split).                         *)
(***************************************************************************)
GenderWords == {"Boys", "Girls"}
GradeCodes  == {"FR", "SO", "JR", "SR"}

section_starts(toks) ==
    {i \in 1..Len(toks) :
        /\ toks[i].k = "word"
        /\ \E j \in (i + 1)..Len(toks) :
              /\ toks[j].k = "word" /\ toks[j].v \in GenderWords
              /\ \A k \in i..j : toks[k].k = "word"}

\* re.split on the zero-width look-ahead: the pieces between the starts
sections(toks) ==
    LET S     == section_starts(toks) \ {1}
        cuts  == {1} \cup S
        end(c) == IF \E d \in S : d > c
                  THEN Min({d \in S : d > c}) - 1 ELSE Len(toks)
        RECURSIVE from(_)
        from(c) == <<SubSeq(toks, c, end(c))>> \o
                   (IF end(c) >= Len(toks) THEN <<>> ELSE from(end(c) + 1))
    IN  IF toks = <<>> THEN <<>> ELSE from(1)

(***************************************************************************)
(* The line pattern of wrangle_max, anchored at both ends:                 *)
(*   place name+ (FR|SO|JR|SR) team+ split time points                     *)
(* split is a token of digits, dots and at most one colon; the pattern     *)
(* ends in \s+(\d+)?$ and the line is stripped, so the points token is     *)
(* needed for the white space before it to exist.                          *)
(***************************************************************************)
max_line_pattern(toks) ==
    LET n == Len(toks)
    IN  IF n < 7 THEN <<>>
        ELSE IF toks[1].k # "num" THEN <<>>
        ELSE IF \/ toks[n].k # "num"
                \/ toks[n - 1].k # "time"
                \/ toks[n - 2].k \notin {"num", "numdot", "time"}
                \/ \E i \in 2..(n - 3) : toks[i].k # "word"
        THEN <<>>
        ELSE
          LET C == {c \in 3..(n - 4) : toks[c].v \in GradeCodes}
          IN  IF C = {} THEN <<>>
              ELSE LET c == Min(C)
                   IN  << IndividualRow(
                            toks[1].v,
                            Texts(SubSeq(toks, 2, c - 1)),
                            toks[c].v,
                            Texts(SubSeq(toks, c + 1, n - 3)),
                            toks[n - 1].v,
                            toks[n].v) >>

RECURSIVE max_section_rows(_)
max_section_rows(secs) ==
    IF secs = <<>> THEN <<>>
    ELSE LET line == Head(secs)
             rows == IF line = <<>> THEN <<>>
                     ELSE IF line[1].k # "num" THEN <<>>
                     ELSE max_line_pattern(line)
         IN  rows \o max_section_rows(Tail(secs))

\* returns the individual rows; the team frame it returns is always empty
wrangle_max(p) ==
    IF ~p.results_div THEN <<>>
    ELSE IF p.pre_blocks = 0 THEN <<>>
    ELSE max_section_rows(sections(Flatten(p.pre)))

(***************************************************************************)
(* What the scans of detect_cole and detect_max find in a token sequence.  *)
(***************************************************************************)
\* TIME_PATTERN.findall: one match in every time token
times_in(toks) == Cardinality({i \in 1..Len(toks) : toks[i].k = "time"})

\* re.findall(r'\b(FR|SO|JR|SR)\b')
grade_tokens_in(toks) ==
    Cardinality({i \in 1..Len(toks) :
                    toks[i].k = "word" /\ toks[i].v \in GradeCodes})

\* \d as a whole token
SingleDigits == {"0", "1", "2", "3", "4", "5", "6", "7", "8", "9"}

\* numeric_grade_pattern matches at token i: digits at the end of the
\* token, two words, a single digit, white space
numeric_grade_at(toks, i) ==
    /\ i + 4 <= Len(toks)
    /\ toks[i].k \in {"num", "time"}
    /\ toks[i + 1].k = "word" /\ toks[i + 2].k = "word"
    /\ toks[i + 3].k = "num" /\ toks[i + 3].v \in SingleDigits

\* numeric_grade_pattern.findall: non-overlapping matches, left to right
RECURSIVE numeric_grades_in(_, _)
numeric_grades_in(toks, i) ==
    IF i > Len(toks) THEN 0
    ELSE IF numeric_grade_at(toks, i)
    THEN 1 + numeric_grades_in(toks, i + 4)
    ELSE numeric_grades_in(toks, i + 1)

------------------------------------------------------------------------------
(***************************************************************************)
(* Tables.  A table element is [in_body, event, has_tbody, thead, body]:   *)
(*   in_body    it lies inside the meetResultsBody container               *)
(*   event      one of its classes contains "eventtable"                   *)
(*   has_tbody  its body rows are wrapped in a tbody element               *)
(*   thead      the tr rows outside the tbody (header rows)                *)
(*   body       the other tr rows                                          *)
(* A row is a sequence of cells [tag, class, text, href]: the tag (td or   *)
(* th), the class tokens in order, the stripped text and the href of the   *)
(* first link inside the cell (None when it has none).                     *)
(***************************************************************************)
INDIVIDUAL_TABLE_HEADERS ==
    <<"place", "video", "athlete", "grade", "team", "finish", "point">>
TEAM_TABLE_HEADERS == <<"place", "tsTeam", "point", "wind", "heat">>

Range(s) == {s[i] : i \in 1..Len(s)}

indiv_headers_set == Range(INDIVIDUAL_TABLE_HEADERS)
team_headers_set  == Range(TEAM_TABLE_HEADERS)

\* the texts re.match(r"^\d+$", ...) accepts, among the texts of the model
PlaceTexts ==
    <<"1", "2", "3", "4", "5", "6", "7", "8", "9", "10", "11", "12">>
DigitTexts == Range(PlaceTexts) \cup {"0", "12"}

\* the key f"{cls}_url"
UrlKey(cls) ==
    CASE cls = "place" -> "place_url"     [] cls = "video" -> "video_url"
      [] cls = "athlete" -> "athlete_url" [] cls = "grade" -> "grade_url"
      [] cls = "team" -> "team_url"       [] cls = "finish" -> "finish_url"
      [] cls = "point" -> "point_url"     [] cls = "tsTeam" -> "tsTeam_url"
      [] cls = "wind" -> "wind_url"       [] cls = "heat" -> "heat_url"

\* table.find_all("tr")
all_tr(t) == t.thead \o t.body

\* the set of class tokens on the td and th cells of the table
cell_classes(t) == UNION {Range(c.class) : c \in Range(Flatten(all_tr(t)))}

\* individual whenever 3 individual header names are among the classes
table_type_nocompare(t) ==
    LET indiv_hits == indiv_headers_set \cap cell_classes(t)
        team_hits  == team_headers_set \cap cell_classes(t)
    IN  IF Cardinality(indiv_hits) >= 3 THEN "individual"
        ELSE IF Cardinality(team_hits) >= 3 THEN "team"
        ELSE "unknown_headers"

\* "individual", "team" or "unknown_headers"
table_type(t) ==
    LET indiv_hits == indiv_headers_set \cap cell_classes(t)
        team_hits  == team_headers_set \cap cell_classes(t)
    IN  IF Cardinality(indiv_hits) >= 3
           /\ Cardinality(indiv_hits) >= Cardinality(team_hits)
        THEN "individual"
        ELSE IF Cardinality(team_hits) >= 3 THEN "team"
        ELSE "unknown_headers"

\* dict assignment row_data[k] = v
Put(d, k, v) == [x \in DOMAIN d \cup {k} |-> IF x = k THEN v ELSE d[x]]

\* the loop over the classes of one cell
RECURSIVE put_classes(_, _, _, _)
put_classes(d, cls_list, cell, headers) ==
    IF cls_list = <<>> THEN d
    ELSE LET cls == Head(cls_list)
             d1  == IF cls \in headers
                    THEN LET d0 == Put(d, cls, cell.text)
                         IN  IF cell.href # None
                             THEN Put(d0, UrlKey(cls), cell.href) ELSE d0
                    ELSE d
         IN  put_classes(d1, Tail(cls_list), cell, headers)

\* a loop body that runs for the first td cell only
put_cells_first(d, cells, headers) ==
    IF cells = <<>> THEN d
    ELSE put_classes(d, Head(cells).class, Head(cells), headers)

\* the loop over the td cells of one row
RECURSIVE put_cells(_, _, _)
put_cells(d, cells, headers) ==
    IF cells = <<>> THEN d
    ELSE put_cells(put_classes(d, Head(cells).class, Head(cells), headers),
                   Tail(cells), headers)

\* row.find_all("td")
td_cells(row) == SelectSeq(row, LAMBDA c : c.tag = "td")

row_data(row, url, type) ==
    put_cells([race_url |-> url], td_cells(row),
              IF type = "individual" THEN indiv_headers_set
              ELSE team_headers_set)

\* str(row_data.get("place", "")).strip()
place_str(d) == IF "place" \in DOMAIN d THEN d["place"] ELSE ""

\* every row with a td cell is appended
accepts_any(row, url, type) == td_cells(row) # <<>>

\* whether the row is appended to all_data[type]
accepts(row, url, type) ==
    LET Keep(place) ==
            IF type = "individual"
            THEN /\ place # "" /\ place \in DigitTexts
                 /\ "athlete" \in DOMAIN row_data(row, url, type)
                 /\ "finish" \in DOMAIN row_data(row, url, type)
            ELSE /\ place # "" /\ place \in DigitTexts
    IN  IF td_cells(row) = <<>> THEN FALSE
        ELSE Keep(place_str(row_data(row, url, type)))

\* the rows of one classified table that are appended, in order
RECURSIVE accepted_rows(_, _, _)
accepted_rows(rows, url, type) ==
    IF rows = <<>> THEN <<>>
    ELSE (IF accepts(Head(rows), url, type)
          THEN <<row_data(Head(rows), url, type)>> ELSE <<>>)
         \o accepted_rows(Tail(rows), url, type)

\* tbody.find_all("tr") if the table has a tbody, else table.find_all("tr")
data_tr(t) == IF t.has_tbody THEN t.body ELSE all_tr(t)

\* table_index None
NoIndex == 0

TableMeta(url, index, type, count) ==
    [url |-> url, table_index |-> index, table_type |-> type,
     row_count |-> count]

\* the loop over the tables, from table_index on
RECURSIVE extract_tables(_, _, _)
extract_tables(tables, table_index, url) ==
    IF tables = <<>>
    THEN [individual |-> <<>>, team |-> <<>>, meta |-> <<>>]
    ELSE
      LET Collect(type, rows, rest) ==
            [individual |-> (IF type = "individual" THEN rows ELSE <<>>)
                            \o rest.individual,
             team       |-> (IF type = "team" THEN rows ELSE <<>>)
                            \o rest.team,
             meta       |-> <<TableMeta(url, table_index, type, Len(rows))>>
                            \o rest.meta]
          Table(t, type) ==
            Collect(type,
                   IF type = "unknown_headers" THEN <<>>
                   ELSE accepted_rows(data_tr(t), url, type),
                   extract_tables(Tail(tables), table_index + 1, url))
      IN  Table(Head(tables), table_type(Head(tables)))

\* a page without tables yields no metadata row
extract_table_data_silent(tables, url) ==
    IF tables = <<>>
    THEN [individual |-> <<>>, team |-> <<>>, meta |-> <<>>]
    ELSE extract_tables(tables, 1, url)

(***************************************************************************)
(* extract_table_data(page_content, url): the individual rows, the team    *)
(* rows and the metadata rows.                                             *)
(***************************************************************************)
extract_table_data(tables, url) ==
    IF tables = <<>>
    THEN [individual |-> <<>>, team |-> <<>>,
          meta |-> <<TableMeta(url, NoIndex, "no_tables", 0)>>]
    ELSE extract_tables(tables, 1, url)

------------------------------------------------------------------------------
(***************************************************************************)
(* src/detect_adam.py, the standalone detector.  Its input a is            *)
(*   filter_chain  how many links of the chain article > header >          *)
(*                 form#frmMeetResultsDetailFilter > select#ddResultsPage  *)
(*                 > option exist (5: the whole chain)                     *)
(*   container     an element with id meetResultsBody exists               *)
(*   tables        the table elements inside it, each                      *)
(*                 [time_like, has_thead, thead, rows]: the table text     *)
(*                 holds a time-like value; it has a thead; the texts of   *)
(*                 the thead cells; the cell texts of its first tr rows    *)
(***************************************************************************)
REQUIRED_HEADERS_ADAM == {"place", "athlete", "grade", "school", "time"}

W_STRONG     == 600
W_HEADERS    == 300
W_TABLECOUNT == 50
W_STRUCTURE  == 200

SYNONYMS ==
    [mark |-> "time", result |-> "time", finish |-> "time",
     name |-> "athlete", competitor |-> "athlete", team |-> "school",
     yr |-> "grade", year |-> "grade", pl |-> "place"]

\* t.strip().lower() on the cell texts of the model
strip_lower(t) ==
    CASE t = "Place" -> "place"     [] t = "Athlete" -> "athlete"
      [] t = "Grade" -> "grade"     [] t = "School" -> "school"
      [] t = "Time" -> "time"       [] t = "Name" -> "name"
      [] t = "Mark" -> "mark"       [] t = "Yr" -> "yr"
      [] t = "Team" -> "team"       [] t = "Pl" -> "pl"
      [] t = "Bib" -> "bib"         [] t = "Heat" -> "heat"
      [] t = "Lane" -> "lane"       [] t = " " -> ""
      [] OTHER -> t

_normalize_tokens(texts) ==
    {IF strip_lower(t) \in DOMAIN SYNONYMS THEN SYNONYMS[strip_lower(t)]
     ELSE strip_lower(t) :
        t \in {x \in Range(texts) : x # "" /\ strip_lower(x) # ""}}

has_milesplit_results_header_structure(a) == a.filter_chain = 5

_find_meetresults_tables(a) == IF ~a.container THEN <<>> ELSE a.tables

\* the loop over the first rows of a table without thead, from best on
RECURSIVE best_header_row(_, _)
best_header_row(rows, best) ==
    IF rows = <<>> THEN best
    ELSE LET cells == Head(rows)
             toks  == _normalize_tokens(cells)
             next  == IF Len(cells) < 3 THEN best
                      ELSE IF Cardinality(toks \cap REQUIRED_HEADERS_ADAM) >= 2
                              /\ Cardinality(toks) > Cardinality(best)
                      THEN toks ELSE best
         IN  best_header_row(Tail(rows), next)

_header_tokens_for_table(tbl) ==
    IF tbl.has_thead THEN _normalize_tokens(tbl.thead)
    ELSE best_header_row(SubSeq(tbl.rows, 1, IF Len(tbl.rows) < 4
                                             THEN Len(tbl.rows) ELSE 4), {})

_table_looks_like_results(tbl) == tbl.time_like

\* the loop over the candidate tables, with its early exit
RECURSIVE best_header_score(_, _)
best_header_score(cands, best) ==
    IF cands = <<>> THEN best
    ELSE LET overlap == Cardinality(REQUIRED_HEADERS_ADAM
                                    \cap _header_tokens_for_table(Head(cands)))
             b == IF overlap > 0 /\ FLess(best, F(200 * overlap))
                  THEN F(200 * overlap) ELSE best
         IN  IF b = F(1000) THEN b ELSE best_header_score(Tail(cands), b)

detect_adam_module(a) ==
    LET s0 == F(0)
        s1 == IF has_milesplit_results_header_structure(a)
              THEN FAdd(s0, F(W_STRUCTURE)) ELSE s0
        tables == _find_meetresults_tables(a)
    IN  IF tables = <<>> THEN s1
        ELSE
          LET looks == SelectSeq(tables, _table_looks_like_results)
              candidate_tables == IF looks # <<>> THEN looks ELSE tables
              s2 == FAdd(s1, F(W_STRONG))
              s3 == FAdd(s2, FMul(F(W_HEADERS),
                                  best_header_score(candidate_tables, F(0))))
              s4 == IF Len(candidate_tables) >= 2
                    THEN FAdd(s3, F(W_TABLECOUNT)) ELSE s3
          IN  FMin(s4, F(1000))

------------------------------------------------------------------------------
(***************************************************************************)
(* The dispatcher.  A page p holds the landmarks (results_body: an element *)
(* with id or class meetResultsBody exists; results_div: it is a div;      *)
(* pre_blocks), the lines of its first pre block (pre), the counts the     *)
(* scans of detect_cole and detect_max find in the text of its pre blocks  *)
(* (numeric_grades, times, place_markers, grade_tokens, team_scores), its  *)
(* table elements (tables) and its url.                                    *)
(***************************************************************************)
REQUIRED_HEADERS_KATIE ==
    {"place", "video", "athlete", "grade", "team", "finish", "point"}

\* c.strip().lower() on the class tokens of the model
class_lower(c) ==
    CASE c = "tsTeam" -> "tsteam" [] c = "Place" -> "place" [] OTHER -> c

\* hits of one table in detect_katie
katie_hits(t) ==
    Cardinality(REQUIRED_HEADERS_KATIE
                \cap {class_lower(c) : c \in cell_classes(t)})

\* expected_headers of detect_adam
expected_headers == {"place", "athlete", "grade", "school", "time"}

\* matches of one table in detect_adam: the texts of the cells of its first
\* row, lower-cased, when it has two rows and the first has four cells
header_matches(t) ==
    IF Len(all_tr(t)) < 2 THEN 0
    ELSE IF Len(all_tr(t)[1]) >= 4
    THEN Cardinality(expected_headers
                     \cap {strip_lower(c.text) : c \in Range(all_tr(t)[1])})
    ELSE 0

best_header_match(tables) ==
    Max({0} \cup {header_matches(t) : t \in Range(tables)})

\* len(data_rows) of one table: its rows with four td cells or more
data_row_count(t) ==
    Cardinality({i \in 1..Len(all_tr(t)) : Len(td_cells(all_tr(t)[i])) >= 4})

\* the second loop of detect_adam: len(data_rows) of the table it breaks
\* at, 0 when it breaks at none
RECURSIVE data_rows(_)
data_rows(tables) ==
    IF tables = <<>> THEN 0
    ELSE IF data_row_count(Head(tables)) >= 5
    THEN data_row_count(Head(tables))
    ELSE data_rows(Tail(tables))

\* the cells of a row that hold a link with an href
linked_cells(row) == Len(SelectSeq(row, LAMBDA c : c.href # None))

RECURSIVE linked_rows(_)
linked_rows(rows) ==
    IF rows = <<>> THEN 0
    ELSE linked_cells(Head(rows)) + linked_rows(Tail(rows))

\* len(soup.select("table tbody a[href]"))
RECURSIVE links(_)
links(tables) ==
    IF tables = <<>> THEN 0
    ELSE (IF Head(tables).has_tbody THEN linked_rows(Head(tables).body)
          ELSE 0) + links(Tail(tables))

\* container.find_all("table")
container_tables(tables) == SelectSeq(tables, LAMBDA t : t.in_body)

\* what the scans of the four detectors find on page p
evidence(p) ==
    [results_body      |-> p.results_body,
     pre_blocks        |-> p.pre_blocks,
     numeric_grades    |-> p.numeric_grades,
     times             |-> p.times,
     place_markers     |-> p.place_markers,
     grade_tokens      |-> p.grade_tokens,
     team_scores       |-> p.team_scores,
     tables            |-> Len(p.tables),
     container_tables  |-> Len(container_tables(p.tables)),
     best_header_match |-> best_header_match(container_tables(p.tables)),
     data_rows         |-> data_rows(container_tables(p.tables)),
     best_hit          |-> Max({0} \cup {katie_hits(t) : t \in Range(p.tables)}),
     has_event_table   |-> \E t \in Range(p.tables) : t.event,
     links             |-> links(p.tables)]

\* the scores dict of extract_table_data_wrapped
detector_scores(p) ==
    LET e == evidence(p)
    IN  [cole  |-> detect_cole(e),
         katie |-> detect_katie(e),
         max   |-> detect_max(e),
         adam  |-> detect_adam(e)]

\* the keys of the scores dict of extract_table_data_wrapped, as inserted
WRAPPED_KEYS == <<"cole", "katie", "max", "adam">>

\* the keys of the scores dict of test_format_detection, as inserted
TEST_KEYS == <<"cole", "max", "adam", "katie">>

\* max(scores, key=scores.get): the first key, in insertion order, that
\* holds the largest value
best_key(scores, keys) ==
    keys[Min({i \in 1..Len(keys) :
                \A j \in 1..Len(keys) : FLeq(scores[keys[j]], scores[keys[i]])})]

\* best_format of test_format_detection: the same four detectors, the
\* scores dict built in the order of TEST_KEYS
test_best_format(p) == best_key(detector_scores(p), TEST_KEYS)

\* score > 0.70
at_threshold_strict(score) == FLess(F(700), score)

\* score >= 0.70
at_threshold(score) == FGeq(score, F(700))

\* an if/elif chain that tests the keys in another order
branch_swapped(best, score) ==
    IF best = "cole" /\ at_threshold(score) THEN "max"
    ELSE IF best = "max" /\ at_threshold(score) THEN "cole"
    ELSE IF best = "adam" /\ at_threshold(score) THEN "adam"
    ELSE "fallback"

\* the branch of the if/elif chain of extract_table_data_wrapped
branch(best, score) ==
    IF best = "cole" /\ at_threshold(score) THEN "cole"
    ELSE IF best = "max" /\ at_threshold(score) THEN "max"
    ELSE IF best = "adam" /\ at_threshold(score) THEN "adam"
    ELSE "fallback"

\* detector_score None
NoScore == [m |-> -1, u |-> 0]

\* the one-row metadata frame built after a wrangler returned
wrangler_meta(url, best, score, individual, team) ==
    << [url |-> url, assigned_parser |-> best, table_index |-> NoIndex,
        table_type |-> best, row_count |-> Len(individual) + Len(team),
        detector_score |-> score] >>

\* an assignment that leaves the column as extract_table_data built it
assign_parser_lost(meta, tag) ==
    [i \in 1..Len(meta) |->
        [url |-> meta[i].url, table_index |-> meta[i].table_index,
         table_type |-> meta[i].table_type, row_count |-> meta[i].row_count,
         assigned_parser |-> None]]

\* meta["assigned_parser"] = tag
assign_parser(meta, tag) ==
    [i \in 1..Len(meta) |->
        [url |-> meta[i].url, table_index |-> meta[i].table_index,
         table_type |-> meta[i].table_type, row_count |-> meta[i].row_count,
         assigned_parser |-> tag]]

(***************************************************************************)
(* extract_table_data_wrapped(page_content, url).  f tells which calls     *)
(* raise on this page: f.wrangler the specialized wrangler, f.generic      *)
(* extract_table_data.  etd is what extract_table_data returns on the page *)
(* when it does not raise.  calls lists the extractors invoked, in order;  *)
(* raised tells that an exception left the function.                       *)
(***************************************************************************)
\* data, meta = extract_table_data(...); meta["assigned_parser"] = tag;
\* return data, meta
generic_call(f, etd, calls, tag) ==
    IF f.generic THEN [raised |-> TRUE, calls |-> calls]
    ELSE [raised |-> FALSE, calls |-> calls,
          individual |-> etd.individual, team |-> etd.team,
          meta |-> assign_parser(etd.meta, tag)]

\* a handler that lets the exception go on to the caller
except_reraise(f, etd, calls) == [raised |-> TRUE, calls |-> calls]

\* except Exception: the calls made in the try block are in calls
except_handler(f, etd, calls) ==
    generic_call(f, etd, Append(calls, "extract_table_data"),
                 "katie_fallback_error")

extract_table_data_wrapped(p, f) ==
    LET Chain(best, score, br, etd) ==
          LET Generic(tag) ==
                IF f.generic
                THEN except_handler(f, etd, <<"extract_table_data">>)
                ELSE generic_call(f, etd, <<"extract_table_data">>, tag)
              Wrangled(name, individual) ==
                IF f.wrangler THEN except_handler(f, etd, <<name>>)
                ELSE [raised |-> FALSE, calls |-> <<name>>,
                      individual |-> individual, team |-> <<>>,
                      meta |-> wrangler_meta(p.url, best, score,
                                             individual, <<>>)]
          IN  [best |-> best, score |-> score, branch |-> br, faults |-> f]
              @@
              CASE br = "cole" -> Wrangled("wrangle_cole", wrangle_cole(p))
                [] br = "max"  -> Wrangled("wrangle_max", wrangle_max(p))
                [] br = "adam" -> Generic("adam")
                [] OTHER       -> Generic("katie_fallback")
        Scored(scores, best) ==
          Chain(best, scores[best], branch(best, scores[best]),
                extract_table_data(p.tables, p.url))
        Detected(scores) == Scored(scores, best_key(scores, WRAPPED_KEYS))
    IN  Detected(detector_scores(p))

------------------------------------------------------------------------------
(***************************************************************************)
(* SpecDetect: one detector runs on one page.                              *)
(***************************************************************************)
\* largest count a scan reports
MaxCount == 10

TextEvidence ==
    [results_body : BOOLEAN, pre_blocks : 0..1,
     numeric_grades : 0..MaxCount, times : 0..MaxCount,
     place_markers : {0, 5}, grade_tokens : 0..MaxCount,
     team_scores : BOOLEAN]

AdamEvidence ==
    [results_body : BOOLEAN, container_tables : 0..2,
     best_header_match : 0..5, data_rows : 0..MaxCount]

KatieEvidence ==
    [tables : 0..2, best_hit : 0..7, has_event_table : BOOLEAN,
     links : 0..MaxCount]

\* first rows of tables, as the standalone detector reads them
HeaderRows ==
    { <<"Place", "Athlete", "Grade", "School", "Time">>,
      <<"Pl", "Name", "Yr", "Team", "Mark">>,
      <<"Place", "Athlete", "Bib">>,
      <<"Place", "Athlete", "Bib", "Heat">>,
      <<"Place", "Bib", "Heat", "Lane">>,
      <<"Place", "Time">>,
      <<"1", "Jane Doe", " ", "16:02">> }

ModuleTables ==
    [time_like : BOOLEAN, has_thead : {TRUE}, thead : HeaderRows,
     rows : {<<>>}]
    \cup
    [time_like : BOOLEAN, has_thead : {FALSE}, thead : {<<>>},
     rows : {<<r>> : r \in HeaderRows}]

\* tables without thead that start with two rows of header texts
TwoRowTables ==
    [time_like : BOOLEAN, has_thead : {FALSE}, thead : {<<>>},
     rows : {<<r1, r2>> :
               r1, r2 \in {<<"Place", "Athlete", "Grade", "School">>,
                           <<"Place", "Athlete", "Bib", "Heat">>,
                           <<"Place", "Bib", "Heat", "Lane">>}}]

\* largest number of tables inside the container
MaxModuleTables == 2

ModuleEvidence ==
    [filter_chain : 0..5, container : BOOLEAN,
     tables : UNION {[1..n -> ModuleTables] : n \in 0..MaxModuleTables}
              \cup {<<t>> : t \in TwoRowTables}]

InitDetect ==
    /\ dname \in {"cole", "max", "adam", "katie", "adam_module"}
    /\ dev \in CASE dname \in {"cole", "max"} -> TextEvidence
                 [] dname = "adam" -> AdamEvidence
                 [] dname = "katie" -> KatieEvidence
                 [] dname = "adam_module" -> ModuleEvidence
    /\ dscore = NoScore
    /\ dpc = "ready"
    /\ page = Idle /\ out = Idle /\ pc = Idle
    /\ doc = Idle /\ xname = Idle /\ xout = Idle /\ xpc = Idle
    /\ urls = Idle /\ done = Idle /\ individual_results = Idle
    /\ team_results = Idle /\ metadata_results = Idle /\ bpc = Idle

Returns(name, score) ==
    /\ dpc = "ready" /\ dname = name
    /\ dscore' = score
    /\ dpc' = "returned"
    /\ UNCHANGED <<dname, dev, dispVars, extVars, batchVars>>

RunDetectCole  == Returns("cole", detect_cole(dev))
RunDetectMax   == Returns("max", detect_max(dev))
RunDetectAdam  == Returns("adam", detect_adam(dev))
RunDetectKatie == Returns("katie", detect_katie(dev))
RunDetectAdamModule == Returns("adam_module", detect_adam_module(dev))

NextDetect ==
    \/ RunDetectCole
    \/ RunDetectMax
    \/ RunDetectAdam
    \/ RunDetectKatie
    \/ RunDetectAdamModule

SpecDetect == InitDetect /\ [][NextDetect]_vars

------------------------------------------------------------------------------
(***************************************************************************)
(* Spec: one call of extract_table_data_wrapped on one page.               *)
(***************************************************************************)
Num(n)    == [k |-> "num", v |-> n]
NumDot(n) == [k |-> "numdot", v |-> n]
Word(w)   == [k |-> "word", v |-> w]
Time(t)   == [k |-> "time", v |-> t]

Td(cls, text) == [tag |-> "td", class |-> cls, text |-> text, href |-> None]
Th(cls, text) == [tag |-> "th", class |-> cls, text |-> text, href |-> None]
Linked(cell, href) == [cell EXCEPT !.href = href]

\* pre blocks of sample pages: numeric grades, one line per record; packed
\* records "1. 9 Name time Team 2. ..." on one line; class-code grades
ColePre ==
    << <<Num("1"), Num("9"), Word("Ann"), Time("12:46.8"), Word("Lincoln")>>,
       <<Num("2"), Num("9"), Word("Bea"), Time("12:50.1"), Word("Central")>>,
       <<Word("DNF"), Num("9"), Word("Cat"), Time("13:00.0"), Word("West")>>,
       <<Num("4"), Word("Dee"), Time("13:10.2"), Word("PR"), Word("West")>> >>

PackedPre ==
    << <<NumDot("1"), Num("10"), Word("Ann"), Time("23:25"), Word("PR"),
         Word("Lincoln"), NumDot("2"), Word("Bea"), Time("23:40"),
         Word("Central")>> >>

MaxPre ==
    << <<Num("1"), Word("Dan"), Word("Stone"), Word("SR"), Word("Woodside"),
         Time("5:11"), Time("15:18"), Num("3")>> >>

\* table elements of sample pages: n result rows, then a row without a
\* numeric place
ResultRow(i) ==
    <<Td(<<"place">>, PlaceTexts[i]),
      Linked(Td(<<"athlete">>, "John Smith"), "/athletes/1"),
      Td(<<"grade">>, "10"), Td(<<"team">>, "Central"),
      Td(<<"finish">>, "16:02")>>

DnfRow ==
    <<Td(<<"place">>, "DNF"), Td(<<"athlete">>, "Al Roe"),
      Td(<<"grade">>, "11"), Td(<<"team">>, "West"), Td(<<"finish">>, "")>>

IndividualTable(in_body, event, n) ==
    [in_body |-> in_body, event |-> event, has_tbody |-> TRUE,
     thead |-> << <<Th(<<>>, "Place"), Th(<<>>, "Athlete"), Th(<<>>, "Grade"),
                    Th(<<>>, "Team"), Th(<<>>, "Time")>> >>,
     body  |-> [i \in 1..n |-> ResultRow(i)] \o <<DnfRow>>]

TeamTable(in_body) ==
    [in_body |-> in_body, event |-> FALSE, has_tbody |-> TRUE,
     thead |-> <<>>,
     body  |-> << <<Td(<<"place">>, "1"), Td(<<"tsTeam">>, "Central"),
                    Td(<<"point">>, "15")>> >>]

\* header rows of tables without class attributes
FullHeader == <<"Place", "Athlete", "Grade", "School", "Time">>
PartHeader == <<"Place", "Name", "Grade", "Bib", "Time">>

PlainRow(i) ==
    <<Td(<<>>, PlaceTexts[i]), Td(<<>>, "John Smith"), Td(<<>>, "10"),
      Td(<<>>, "Central"), Td(<<>>, "16:02")>>

PlainTable(in_body, header, n) ==
    [in_body |-> in_body, event |-> FALSE, has_tbody |-> FALSE,
     thead |-> <<>>,
     body  |-> <<[i \in 1..Len(header) |-> Td(<<>>, header[i])]>>
               \o [i \in 1..n |-> PlainRow(i)]]

ShortTable(in_body) ==
    [in_body |-> in_body, event |-> FALSE, has_tbody |-> TRUE,
     thead |-> <<>>,
     body  |-> << <<Td(<<"place">>, "2"), Td(<<"athlete">>, "Al Roe"),
                    Td(<<"finish">>, "17:40")>> >>]

\* the class-based table whose only row is place 1, John Smith
OneRowTable(in_body) ==
    [in_body |-> in_body, event |-> FALSE, has_tbody |-> TRUE,
     thead |-> <<>>,
     body  |-> << <<Td(<<"place">>, "1"), Td(<<"athlete">>, "John Smith"),
                    Td(<<"grade">>, "10"), Td(<<"team">>, "Central"),
                    Td(<<"finish">>, "16:02")>> >>]

\* numbers of result rows: with the row that follows or precedes them they
\* straddle the row and link counts detect_adam and detect_katie test
RowCounts == {1, 4, 5, 9}

\* the first pre block and the table elements of the sample pages; body
\* tells that the page has a meetResultsBody container, which then holds
\* the tables
SampleContents(body) ==
    { [pre |-> <<>>, tables |-> <<>>],
      [pre |-> <<>>,
       tables |-> <<IndividualTable(body, TRUE, 1), TeamTable(body)>>],
      [pre |-> <<>>, tables |-> <<ShortTable(FALSE)>>],
      [pre |-> <<>>, tables |-> <<OneRowTable(body)>>] }
    \cup
    { [pre |-> <<>>, tables |-> <<IndividualTable(body, event, n)>>] :
        event \in BOOLEAN, n \in RowCounts }
    \cup
    { [pre |-> <<>>, tables |-> <<PlainTable(body, header, n)>>] :
        header \in {FullHeader, PartHeader}, n \in RowCounts }
    \cup
    (IF body
     THEN { [pre |-> pre, tables |-> tables] :
              pre \in {ColePre, PackedPre, MaxPre},
              tables \in { <<>>,
                           <<PlainTable(TRUE, PartHeader, 4),
                             IndividualTable(FALSE, FALSE, 1)>> } }
     ELSE {})

\* the counts that straddle the thresholds of the detectors
TextCounts ==
    [numeric_grades : {0, 2, 3, 5}, times : {0, 2, 4, 5, 8},
     place_markers : {0, 5}, grade_tokens : {0, 1, 3, 4, 8},
     team_scores : BOOLEAN]

NoText ==
    [numeric_grades |-> 0, times |-> 0, place_markers |-> 0,
     grade_tokens |-> 0, team_scores |-> FALSE]

MakePage(container, pre, text, tables) ==
    [url |-> 1, results_body |-> container # "none",
     results_div |-> container = "div",
     pre_blocks |-> IF pre = <<>> THEN 0
                    ELSE IF /\ text.times = times_in(Flatten(pre))
                            /\ text.grade_tokens = grade_tokens_in(Flatten(pre))
                            /\ text.numeric_grades
                                  = numeric_grades_in(Flatten(pre), 1)
                    THEN 1 ELSE 2,
     pre |-> pre,
     numeric_grades |-> text.numeric_grades, times |-> text.times,
     place_markers |-> text.place_markers,
     grade_tokens |-> text.grade_tokens, team_scores |-> text.team_scores,
     tables |-> tables]

\* the pages: a pre block lies inside the container; the scans of
\* detect_cole and detect_max read every pre block of the container, so
\* they find at least what the first block holds
IsPage(body, pre, text) ==
    /\ pre = <<>> => text = NoText
    /\ pre # <<>> => body
    /\ text.times >= times_in(Flatten(pre))
    /\ text.grade_tokens >= grade_tokens_in(Flatten(pre))
    /\ text.numeric_grades >= numeric_grades_in(Flatten(pre), 1)

\* the element that carries meetResultsBody: none, a div, another element
Containers == {"none", "div", "section"}

Faults == [wrangler : BOOLEAN, generic : BOOLEAN]

Init ==
    /\ \E container \in Containers :
          \E c \in SampleContents(container # "none"), text \in TextCounts :
             /\ IsPage(container # "none", c.pre, text)
             /\ page = MakePage(container, c.pre, text, c.tables)
    /\ out = [raised |-> FALSE, calls |-> <<>>]
    /\ pc = "call"
    /\ dname = Idle /\ dev = Idle /\ dscore = Idle /\ dpc = Idle
    /\ doc = Idle /\ xname = Idle /\ xout = Idle /\ xpc = Idle
    /\ urls = Idle /\ done = Idle /\ individual_results = Idle
    /\ team_results = Idle /\ metadata_results = Idle /\ bpc = Idle

\* the call ends with result r
Ends(r, raised) ==
    /\ pc = "call"
    /\ r.raised = raised
    /\ out' = r
    /\ pc' = IF raised THEN "raised" ELSE "returned"
    /\ UNCHANGED <<page, detVars, extVars, batchVars>>

\* the call returns
Return == \E f \in Faults : Ends(extract_table_data_wrapped(page, f), FALSE)

\* the call raises: extract_table_data raised in the except handler
Raise == \E f \in Faults : Ends(extract_table_data_wrapped(page, f), TRUE)

Next == Return \/ Raise

Spec == Init /\ [][Next]_vars

------------------------------------------------------------------------------
(***************************************************************************)
(* SpecExtract: one call of one extractor (wrangle_cole, wrangle_max or    *)
(* extract_table_data) on one document.                                    *)
(***************************************************************************)
\* longest pre text, in lines, and longest table body, in rows
MaxLines == 4
MaxRows  == 2

\* the athlete on line j of a pre text
Names == <<"Ann", "Bea", "Cat", "Dee", "Eve", "Fay">>

\* the lines that can stand at position j of a pre text: a record with a
\* numeric grade; with a tag after the time; with "digits." as place; DNF
\* records with and without a time; a record with a class code and a DNF
\* record of that form; an event heading
LineShapes(j) ==
    << <<Num(PlaceTexts[j]), Num("9"), Word(Names[j]), Time("12:46.8"),
        Word("Lincoln")>>,
      <<Num(PlaceTexts[j]), Word(Names[j]), Time("13:10.2"), Word("PR"),
        Word("West")>>,
      <<NumDot(PlaceTexts[j]), Word(Names[j]), Time("23:25"),
        Word("Central")>>,
      <<Word("DNF"), Num("9"), Word(Names[j]), Time("13:00.0"),
        Word("West")>>,
      <<Word("DNF"), Word(Names[j]), Word("West")>>,
      <<Num(PlaceTexts[j]), Word(Names[j]), Word("SR"), Word("Woodside"),
        Time("5:11"), Time("15:18"), Num("3")>>,
      <<Word("DNF"), Word(Names[j]), Word("SR"), Word("Woodside"),
        Time("5:11"), Time("15:18"), Num("3")>>,
      <<Word("Varsity"), Word("Boys")>> >>

\* the pre text whose line j has shape f[j]
PreText(f) == [j \in DOMAIN f |-> LineShapes(j)[f[j]]]

\* a page whose container div holds one pre block and no table
TextDoc(pre) ==
    [url |-> 1, results_div |-> TRUE, pre_blocks |-> 1, pre |-> pre,
     tables |-> <<>>]

\* a page with table elements and no pre block
TableDoc(tables) ==
    [url |-> 1, results_div |-> TRUE, pre_blocks |-> 0, pre |-> <<>>,
     tables |-> tables]

\* the class tokens of both header lists, in a fixed order
ClassOrder ==
    <<"place", "video", "athlete", "grade", "team", "finish", "point",
      "tsTeam", "wind", "heat">>

\* a row with one cell for every class of H; the place cell reads "1"
ClassRow(H, tag) ==
    SelectSeq([i \in 1..Len(ClassOrder) |->
                 [tag |-> tag, class |-> <<ClassOrder[i]>>,
                  text |-> IF ClassOrder[i] = "place" THEN "1" ELSE "x",
                  href |-> None]],
              LAMBDA c : c.class[1] \in H)

\* a table whose class tokens are H, on the td cells of its only body row
\* or on the th cells of its header row
ClassTable(H, on_th) ==
    [in_body |-> TRUE, event |-> FALSE, has_tbody |-> TRUE,
     thead |-> IF on_th THEN <<ClassRow(H, "th")>> ELSE <<>>,
     body  |-> IF on_th THEN <<PlainRow(1)>> ELSE <<ClassRow(H, "td")>>]

\* body rows of a table: a full result row; rows whose place is "DNF",
\* empty or missing; rows whose finish is missing or empty; rows whose
\* athlete is missing or empty; a row of th cells; a row without classes; a
\* row whose place cell has a second class; team rows with a numeric place
\* and with "-"
RowSamples ==
    << <<Td(<<"place">>, "1"), Linked(Td(<<"athlete">>, "Ann"), "/athletes/1"),
        Td(<<"grade">>, "10"), Td(<<"team">>, "Central"),
        Td(<<"finish">>, "16:02")>>,
      <<Td(<<"place">>, "DNF"), Td(<<"athlete">>, "Bea"),
        Td(<<"team">>, "West"), Td(<<"finish">>, "DNF")>>,
      <<Td(<<"place">>, ""), Td(<<"athlete">>, "Cat"),
        Td(<<"team">>, "West"), Td(<<"finish">>, "17:00")>>,
      <<Td(<<"athlete">>, "Dee"), Td(<<"team">>, "West"),
        Td(<<"finish">>, "17:05")>>,
      <<Td(<<"place">>, "2"), Td(<<"athlete">>, "Eve"),
        Td(<<"team">>, "West")>>,
      <<Td(<<"place">>, "3"), Td(<<"athlete">>, "Fay"),
        Td(<<"team">>, "West"), Td(<<"finish">>, "")>>,
      <<Td(<<"place">>, "4"), Td(<<"team">>, "West"),
        Td(<<"finish">>, "18:00")>>,
      <<Td(<<"place">>, "6"), Td(<<"athlete">>, ""),
        Td(<<"team">>, "West"), Td(<<"finish">>, "19:00")>>,
      <<Th(<<"place">>, "7"), Th(<<"athlete">>, "Gil"),
        Th(<<"finish">>, "19:30")>>,
      PlainRow(8),
      <<Td(<<"place", "odd">>, "5"), Td(<<"athlete">>, "Hal"),
        Td(<<"finish">>, "18:30")>>,
      <<Td(<<"place">>, "1"), Td(<<"tsTeam">>, "Central"),
        Td(<<"point">>, "15")>>,
      <<Td(<<"place">>, "-"), Td(<<"tsTeam">>, "West"),
        Td(<<"point">>, "")>> >>

\* the table body whose row i is sample f[i]
Body(f) == [i \in DOMAIN f |-> RowSamples[f[i]]]

\* header rows that carry every class of one header list
HeaderRow(headers) == [i \in 1..Len(headers) |-> Th(<<headers[i]>>, "h")]

RowTable(headers, has_tbody, body) ==
    [in_body |-> TRUE, event |-> FALSE, has_tbody |-> has_tbody,
     thead |-> <<HeaderRow(headers)>>, body |-> body]

\* most table elements on a page
MaxTables == 3

\* the tables of pages with several tables: an individual one, a team one
\* and one with too few header classes
SmallTables ==
    <<ClassTable({"place", "athlete", "finish"}, FALSE),
      ClassTable({"place", "tsTeam", "point"}, FALSE),
      ClassTable({"place", "athlete"}, FALSE)>>

\* the pre block of lines "<place> <first> <last> <grade> <time> <team>"
\* with places 1..12: "1 Jane Doe 9 12:46.8 Lincoln HS", ...
PlaceNameGradePre ==
    [j \in 1..Len(PlaceTexts) |->
       <<Num(PlaceTexts[j]), Word("Jane"), Word("Doe"), Num("9"),
         Time("12:46.8"), Word("Lincoln"), Word("HS")>>]

\* the documents: pre texts of up to MaxLines lines; tables with every set
\* of class tokens; tables with a full header row and up to MaxRows body
\* rows; the pre block of twelve lines with the grade after the name;
\* pages of two to MaxTables tables
IsExtractDoc(d) ==
    \/ \E n \in 1..MaxLines :
          \E f \in [1..n -> 1..Len(LineShapes(1))] : d = TextDoc(PreText(f))
    \/ \E H \in SUBSET Range(ClassOrder), on_th \in BOOLEAN :
          d = TableDoc(<<ClassTable(H, on_th)>>)
    \/ \E headers \in {INDIVIDUAL_TABLE_HEADERS, TEAM_TABLE_HEADERS},
          has_tbody \in BOOLEAN, n \in 0..MaxRows :
          \E f \in [1..n -> 1..Len(RowSamples)] :
             d = TableDoc(<<RowTable(headers, has_tbody, Body(f))>>)
    \/ d = TextDoc(PlaceNameGradePre)
    \/ \E n \in 2..MaxTables :
          \E f \in [1..n -> 1..Len(SmallTables)] :
             d = TableDoc([i \in 1..n |-> SmallTables[f[i]]])

\* the frames a wrangler returns; it returns no metadata
wrangled(rows) == [individual |-> rows, team |-> <<>>, meta |-> <<>>]

InitExtract ==
    /\ IsExtractDoc(doc)
    /\ xname = None
    /\ xout = wrangled(<<>>)
    /\ xpc = "ready"
    /\ page = Idle /\ out = Idle /\ pc = Idle
    /\ dname = Idle /\ dev = Idle /\ dscore = Idle /\ dpc = Idle
    /\ urls = Idle /\ done = Idle /\ individual_results = Idle
    /\ team_results = Idle /\ metadata_results = Idle /\ bpc = Idle

\* extractor name returns result
Extracts(name, result) ==
    /\ xpc = "ready"
    /\ xname' = name
    /\ xout' = result
    /\ xpc' = "returned"
    /\ UNCHANGED <<doc, dispVars, detVars, batchVars>>

RunWrangleCole == Extracts("wrangle_cole", wrangled(wrangle_cole(doc)))

RunWrangleMax == Extracts("wrangle_max", wrangled(wrangle_max(doc)))

RunExtractTableData ==
    Extracts("extract_table_data", extract_table_data(doc.tables, doc.url))

NextExtract ==
    \/ RunWrangleCole
    \/ RunWrangleMax
    \/ RunExtractTableData

SpecExtract == InitExtract /\ [][NextExtract]_vars

------------------------------------------------------------------------------
(***************************************************************************)
(* SpecBatch: process_urls_and_save_wrapped(urls).  URL i is named i.  An  *)
(* entry of urls is [kind, fault]: the kind of page the browser gets for   *)
(* the URL, and what fails for it: "fetch" (page.goto or page.content      *)
(* raises), "wrangler" or "generic" (that extractor raises on the page),   *)
(* "none".                                                                 *)
(***************************************************************************)
\* longest list of URLs
NUrls == 3

UrlFaults == {"none", "fetch", "wrangler", "generic"}

FaultsOf(fault) ==
    [wrangler |-> fault = "wrangler", generic |-> fault = "generic"]

\* the pages behind the URLs: "pre", a page of pre blocks whose first
\* block is ColePre; "tables", a page of result tables
PageKinds == {"pre", "tables"}

BatchPage(kind, url) ==
    [(IF kind = "pre"
      THEN MakePage("div", ColePre,
                    [numeric_grades |-> 5, times |-> 8, place_markers |-> 5,
                     grade_tokens |-> 0, team_scores |-> FALSE], <<>>)
      ELSE MakePage("div", <<>>, NoText,
                    <<IndividualTable(TRUE, TRUE, 4), TeamTable(TRUE)>>))
     EXCEPT !.url = url]

InitBatch ==
    /\ \E n \in 0..NUrls :
          urls \in [1..n -> [kind : PageKinds, fault : UrlFaults]]
    /\ done = 0
    /\ individual_results = <<>>
    /\ team_results = <<>>
    /\ metadata_results = <<>>
    /\ bpc = "loop"
    /\ page = Idle /\ out = Idle /\ pc = Idle
    /\ dname = Idle /\ dev = Idle /\ dscore = Idle /\ dpc = Idle
    /\ doc = Idle /\ xname = Idle /\ xout = Idle /\ xpc = Idle

\* page.goto ... page.content(), then extract_table_data_wrapped
fetch_and_extract(u, url) ==
    IF u.fault = "fetch" THEN [raised |-> TRUE]
    ELSE extract_table_data_wrapped(BatchPage(u.kind, url), FaultsOf(u.fault))

\* the three frames before the iteration
Accumulated ==
    [individual |-> individual_results, team |-> team_results,
     metadata |-> metadata_results]

\* the rest of the try block: a frame is concatenated unless it is empty
try_concat(acc, r) ==
    [individual |-> acc.individual \o r.individual,
     team |-> acc.team \o r.team,
     metadata |-> acc.metadata \o r.meta,
     next |-> "loop"]

error_meta(url) ==
    [url |-> url, assigned_parser |-> "error", table_index |-> "",
     table_type |-> "error", row_count |-> 0, detector_score |-> None]

\* no handler: the exception leaves process_urls_and_save_wrapped
except_propagates(acc, url) ==
    [individual |-> acc.individual, team |-> acc.team,
     metadata |-> acc.metadata, next |-> "raised"]

\* except Exception as e: one error row, then the next URL
except_Exception(acc, url) ==
    [individual |-> acc.individual, team |-> acc.team,
     metadata |-> Append(acc.metadata, error_meta(url)),
     next |-> "loop"]

\* the end of one iteration of the for loop
Iterates(new) ==
    /\ done' = done + 1
    /\ individual_results' = new.individual
    /\ team_results' = new.team
    /\ metadata_results' = new.metadata
    /\ bpc' = new.next
    /\ UNCHANGED <<urls, dispVars, detVars, extVars>>

\* an iteration whose try block completes
ProcessUrl ==
    /\ bpc = "loop"
    /\ done < Len(urls)
    /\ LET Completes(r) ==
               /\ ~r.raised
               /\ Iterates(try_concat(Accumulated, r))
       IN  Completes(fetch_and_extract(urls[done + 1], done + 1))

\* an iteration whose try block raises
ProcessUrlError ==
    /\ bpc = "loop"
    /\ done < Len(urls)
    /\ LET Raises(r) ==
               /\ r.raised
               /\ Iterates(except_Exception(Accumulated, done + 1))
       IN  Raises(fetch_and_extract(urls[done + 1], done + 1))

\* the list is exhausted: browser.close() and return
BrowserClose ==
    /\ bpc = "loop"
    /\ done = Len(urls)
    /\ bpc' = "returned"
    /\ UNCHANGED <<urls, done, individual_results, team_results,
                   metadata_results, dispVars, detVars, extVars>>

NextBatch ==
    \/ ProcessUrl
    \/ ProcessUrlError
    \/ BrowserClose

SpecBatch == InitBatch /\ [][NextBatch]_vars

------------------------------------------------------------------------------
(***************************************************************************)
(* Properties of the dispatcher, checked under Spec.                       *)
(***************************************************************************)
Ended == pc \in {"returned", "raised"}

Wranglers == {"wrangle_cole", "wrangle_max", "wrangle_adam", "wrangle_katie"}

\* the extractor of a dialect
WranglerOf(key) ==
    CASE key = "cole" -> "wrangle_cole" [] key = "max" -> "wrangle_max"
      [] key = "adam" -> "wrangle_adam" [] key = "katie" -> "wrangle_katie"
      [] OTHER -> None

\* the first extractor the call invoked
Routed == out.calls[1]

\* C1 as stated: a best score below 0.70 is routed to extract_table_data
\* whichever dialect won, and a best score of exactly 0.70 is routed to the
\* specialized extractor.
C1_stated ==
    Ended =>
      /\ FLess(out.score, F(700)) => Routed = "extract_table_data"
      /\ out.score = F(700) => Routed \in Wranglers

\* C1, amended: below 0.70 every page goes to extract_table_data; the
\* threshold is inclusive for the two dialects that have a wrangler: a cole
\* or max winner at 0.70 or above goes to wrangle_cole or wrangle_max; an
\* adam or katie winner goes to extract_table_data at every score.
C1_threshold ==
    Ended =>
      /\ FLess(out.score, F(700)) => Routed = "extract_table_data"
      /\ (out.best \in {"cole", "max"} /\ FGeq(out.score, F(700)))
            => Routed = WranglerOf(out.best)
      /\ out.best \in {"adam", "katie"} => Routed = "extract_table_data"

\* a cole winner at exactly 0.70 reached wrangle_cole
C1_witness ==
    /\ pc = "returned" /\ out.best = "cole" /\ out.score = F(700)
    /\ out.calls = <<"wrangle_cole">>

\* C2 as stated: a dialect that wins at 0.70 or above has its own extractor
\* invoked first, for each of cole, katie, max and adam.
C2_stated ==
    (Ended /\ FGeq(out.score, F(700))) => Routed = WranglerOf(out.best)

\* C2, amended: a cole or max winner at 0.70 or above has wrangle_cole or
\* wrangle_max invoked, and extract_table_data only if the wrangler raised;
\* wrangle_adam and wrangle_katie are never invoked: an adam or katie winner
\* at 0.70 or above has extract_table_data invoked, tagged "adam" for adam
\* and "katie_fallback" for katie.
C2_own_extractor ==
    Ended =>
      /\ \A i \in 1..Len(out.calls) :
            out.calls[i] \notin {"wrangle_adam", "wrangle_katie"}
      /\ FGeq(out.score, F(700)) =>
            CASE out.best \in {"cole", "max"} ->
                   /\ Routed = WranglerOf(out.best)
                   /\ ~out.faults.wrangler => out.calls = <<WranglerOf(out.best)>>
              [] out.best = "adam" ->
                   /\ Routed = "extract_table_data"
                   /\ (~out.raised /\ ~out.faults.generic) =>
                         \A i \in 1..Len(out.meta) :
                            out.meta[i].assigned_parser = "adam"
              [] out.best = "katie" ->
                   /\ Routed = "extract_table_data"
                   /\ (~out.raised /\ ~out.faults.generic) =>
                         \A i \in 1..Len(out.meta) :
                            out.meta[i].assigned_parser = "katie_fallback"

\* a max winner above the threshold reached wrangle_max alone
C2_witness ==
    /\ pc = "returned" /\ out.best = "max" /\ FGeq(out.score, F(700))
    /\ out.calls = <<"wrangle_max">>

\* C5: when the wrangler chosen by the dispatcher raises, the call returns
\* what extract_table_data returns on the page, every metadata row tagged
\* "katie_fallback_error".
C5_error_fallback ==
    (Ended /\ out.branch \in {"cole", "max"} /\ out.faults.wrangler
       /\ ~out.faults.generic) =>
      /\ pc = "returned" /\ ~out.raised
      /\ out.calls = <<WranglerOf(out.branch), "extract_table_data">>
      /\ out.individual = extract_table_data(page.tables, page.url).individual
      /\ out.team = extract_table_data(page.tables, page.url).team
      /\ Len(out.meta) = Len(extract_table_data(page.tables, page.url).meta)
      /\ Len(out.meta) >= 1
      /\ \A i \in 1..Len(out.meta) :
            out.meta[i].assigned_parser = "katie_fallback_error"

\* wrangle_cole raised on a page with tables and the call returned rows
C5_witness ==
    /\ pc = "returned" /\ out.branch = "cole" /\ out.faults.wrangler
    /\ out.calls = <<"wrangle_cole", "extract_table_data">>
    /\ out.meta[1].assigned_parser = "katie_fallback_error"
    /\ page.tables # <<>>

\* the path tag of metadata row i of the result
Tag(i) == out.meta[i].assigned_parser

\* C6 as stated: a call that returns yields a metadata row, and its tag tells
\* which of four paths was taken: "cole" or "max" a specialized success,
\* "katie_fallback_error" the error fallback, "no_tables" a page without
\* tables, and any other tag a best score below the threshold.
C6_stated ==
    pc = "returned" =>
      /\ Len(out.meta) >= 1
      /\ \A i \in 1..Len(out.meta) :
            IF Tag(i) \in {"cole", "max"}
            THEN out.calls = <<WranglerOf(out.best)>>
            ELSE IF Tag(i) = "katie_fallback_error"
            THEN Len(out.calls) = 2
            ELSE IF out.meta[i].table_type = "no_tables"
            THEN page.tables = <<>>
            ELSE FLess(out.score, F(700))

\* C6, amended: a call that returns yields a metadata row, and its tag tells
\* the branch the dispatcher took: "cole" or "max" (with table_type equal to
\* it) after the wrangler returned, "adam" after an adam win at 0.70 or
\* above, "katie_fallback" after the else branch (a katie win at any score or
\* a best score below 0.70), "katie_fallback_error" after the except
\* handler; table_type is "no_tables" exactly when extract_table_data ran on
\* a page without tables.
C6_path_tag ==
    pc = "returned" =>
      /\ Len(out.meta) >= 1
      /\ \A i \in 1..Len(out.meta) :
            /\ Tag(i) \in {"cole", "max", "adam", "katie_fallback",
                           "katie_fallback_error"}
            /\ Tag(i) \in {"cole", "max"} <=>
                  out.calls = <<WranglerOf(out.branch)>>
            /\ Tag(i) \in {"cole", "max"} =>
                  /\ Tag(i) = out.best /\ out.meta[i].table_type = out.best
                  /\ Len(out.meta) = 1
            /\ Tag(i) = "adam" <=>
                  out.branch = "adam" /\ out.calls = <<"extract_table_data">>
            /\ Tag(i) = "katie_fallback" <=>
                  /\ out.branch = "fallback"
                  /\ out.calls = <<"extract_table_data">>
            /\ Tag(i) = "katie_fallback_error" <=> Len(out.calls) = 2
            /\ out.meta[i].table_type = "no_tables" <=>
                  /\ page.tables = <<>>
                  /\ out.calls[Len(out.calls)] = "extract_table_data"

\* wrangle_max returned no row and the call still yields its metadata row
C6_witness ==
    /\ pc = "returned" /\ out.calls = <<"wrangle_max">>
    /\ out.individual = <<>> /\ out.team = <<>>
    /\ Len(out.meta) = 1 /\ Tag(1) = "max" /\ out.meta[1].row_count = 0

\* C13: on a page without pre blocks whose one table has the single row
\* place "1", athlete "John Smith", grade "10", team "Central", finish
\* "16:02" on cells of those classes, a call of extract_table_data_wrapped
\* that returns yields exactly one individual record, with those five
\* values, and an empty team table.
C13_one_record ==
    (pc = "returned" /\ page.pre_blocks = 0
       /\ page.tables = <<OneRowTable(page.results_body)>>) =>
      /\ Len(out.individual) = 1
      /\ {"place", "athlete", "grade", "team", "finish"}
            \subseteq DOMAIN out.individual[1]
      /\ out.individual[1]["place"] = "1"
      /\ out.individual[1]["athlete"] = "John Smith"
      /\ out.individual[1]["grade"] = "10"
      /\ out.individual[1]["team"] = "Central"
      /\ out.individual[1]["finish"] = "16:02"
      /\ out.team = <<>>

\* the call on that page returned through extract_table_data
C13_witness ==
    /\ pc = "returned"
    /\ page.pre_blocks = 0
    /\ page.tables = <<OneRowTable(page.results_body)>>
    /\ out.calls = <<"extract_table_data">>
    /\ Len(out.individual) = 1 /\ out.meta[1].row_count = 1

\* C14: on a document without table elements and without pre blocks, a
\* call of extract_table_data_wrapped that returns yields an empty
\* individual table, an empty team table and exactly one metadata row,
\* whose table_type is "no_tables".
C14_no_tables ==
    (pc = "returned" /\ page.tables = <<>> /\ page.pre_blocks = 0) =>
      /\ out.individual = <<>>
      /\ out.team = <<>>
      /\ Len(out.meta) = 1
      /\ out.meta[1].table_type = "no_tables"
      /\ out.meta[1].row_count = 0

\* the call on a document without container, table and pre block returned
C14_witness ==
    /\ pc = "returned"
    /\ page.tables = <<>> /\ page.pre_blocks = 0 /\ ~page.results_body
    /\ out.calls = <<"extract_table_data">>
    /\ Len(out.meta) = 1 /\ out.meta[1].table_type = "no_tables"

\* C15 as stated: the dispatcher selects a dialect with the highest score,
\* and among dialects that share the highest score the first of cole,
\* katie, max, adam; test_format_detection selects the same dialect on the
\* same page.
C15_stated ==
    Ended =>
      /\ \A k \in Range(WRAPPED_KEYS) :
            FLeq(detector_scores(page)[k], out.score)
      /\ out.score = detector_scores(page)[out.best]
      /\ \A i, j \in 1..Len(WRAPPED_KEYS) :
            (WRAPPED_KEYS[j] = out.best /\ i < j)
               => FLess(detector_scores(page)[WRAPPED_KEYS[i]], out.score)
      /\ test_best_format(page) = out.best

\* the call invoked extractor name
Invoked(name) == \E i \in 1..Len(out.calls) : out.calls[i] = name

(***************************************************************************)
(* C21: a page with 3 or more FR/SO/JR/SR tokens has a detect_cole score   *)
(* of at most 0.315 and wrangle_cole is not invoked on it; a page with 3   *)
(* or more matches of the numeric-grade pattern has a detect_max score of  *)
(* at most 0.42 and wrangle_max is not invoked on it; whatever the other   *)
(* counts of the page are.                                                 *)
(***************************************************************************)
C21_penalty_excludes ==
    Ended =>
      /\ page.grade_tokens >= 3 =>
            /\ FLeq(detector_scores(page).cole, F(315))
            /\ ~Invoked("wrangle_cole")
      /\ page.numeric_grades >= 3 =>
            /\ FLeq(detector_scores(page).max, F(420))
            /\ ~Invoked("wrangle_max")

\* a page with every signal of detect_cole at its largest branch and three
\* or more FR/SO/JR/SR tokens: cole is the best dialect at 1.05 * 0.3 and
\* the call goes to extract_table_data
C21_witness ==
    /\ pc = "returned"
    /\ page.grade_tokens >= 3 /\ page.numeric_grades >= 5
    /\ page.times >= 8 /\ page.place_markers >= 5
    /\ out.best = "cole" /\ out.score.m = 315
    /\ out.calls = <<"extract_table_data">>

------------------------------------------------------------------------------
(***************************************************************************)
(* Properties of the detectors, checked under SpecDetect.                  *)
(***************************************************************************)
\* the page lacks the landmark the running detector requires
LacksLandmark ==
    CASE dname \in {"cole", "max"} -> ~dev.results_body \/ dev.pre_blocks = 0
      [] dname = "adam" -> ~dev.results_body \/ dev.container_tables = 0
      [] dname = "katie" -> dev.tables = 0
      [] dname = "adam_module" -> ~dev.container \/ dev.tables = <<>>

\* C3 as stated: a detector that runs on a page without its required
\* landmark returns exactly 0.0, whatever else the page contains.
C3_stated == (dpc = "returned" /\ LacksLandmark) => dscore = F(0)

\* C4: every score a detector returns lies in [0, 1].
C4_score_range ==
    dpc = "returned" => FLeq(F(0), dscore) /\ FLeq(dscore, F(1000))

\* detect_cole summed 0.7 + 0.2 + 0.15 and returned the capped score
C4_witness ==
    /\ dpc = "returned" /\ dname = "cole"
    /\ dev.results_body /\ dev.pre_blocks > 0
    /\ dev.numeric_grades >= 5 /\ dev.times >= 8 /\ dev.place_markers >= 5
    /\ dev.grade_tokens < 3
    /\ dscore = F(1000)

\* table t of the standalone detector with one more cell, of text h, in its
\* thead (r = 0) or in its row r
WithHeader(t, r, h) ==
    IF r = 0 THEN [t EXCEPT !.thead = Append(@, h)]
    ELSE [t EXCEPT !.rows[r] = Append(@, h)]

\* the header cells a table of the standalone detector can grow in
HeaderPlaces(t) == IF t.has_thead THEN {0} ELSE 1..Len(t.rows)

\* overlap of the header tokens of t with the required headers
HeaderOverlap(t) ==
    Cardinality(REQUIRED_HEADERS_ADAM \cap _header_tokens_for_table(t))

\* C16 as stated: adding one more cell with a required canonical header
\* to the header cells of a table never lowers the header overlap of that
\* table and never lowers the score of the detector: for detect_adam of
\* src/detect_adam.py, for detect_adam of the main module (one more header
\* match) and for detect_katie (one more class hit).
C16_stated ==
    dpc = "returned" =>
      /\ dname = "adam_module" =>
            \A i \in 1..Len(dev.tables) :
               \A r \in HeaderPlaces(dev.tables[i]) :
                  \A h \in {"Place", "Athlete", "Grade", "School", "Time"} :
                     /\ HeaderOverlap(WithHeader(dev.tables[i], r, h))
                           >= HeaderOverlap(dev.tables[i])
                     /\ FLeq(dscore,
                             detect_adam_module(
                                [dev EXCEPT !.tables[i] = WithHeader(@, r, h)]))
      /\ (dname = "adam" /\ dev.best_header_match < 5) =>
            FLeq(dscore,
                 detect_adam([dev EXCEPT !.best_header_match = @ + 1]))
      /\ (dname = "katie" /\ dev.best_hit < 7) =>
            FLeq(dscore, detect_katie([dev EXCEPT !.best_hit = @ + 1]))

\* the evidence e with every count of a text detector but signal s at zero
OnlyText(e, s) ==
    [results_body |-> e.results_body, pre_blocks |-> e.pre_blocks,
     numeric_grades |-> IF s = "numeric_grades" THEN e.numeric_grades ELSE 0,
     times |-> IF s = "times" THEN e.times ELSE 0,
     place_markers |-> IF s = "place_markers" THEN e.place_markers ELSE 0,
     grade_tokens |-> IF s = "grade_tokens" THEN e.grade_tokens ELSE 0,
     team_scores |-> s = "team_scores" /\ e.team_scores]

\* the weights, in thousandths, that the signals of e add to the score of
\* detector d, each measured as the score of the signal alone
SignalSum(d, e) ==
    CASE d = "cole" ->
           detect_cole(OnlyText(e, "numeric_grades")).m
           + detect_cole(OnlyText(e, "times")).m
           + detect_cole(OnlyText(e, "place_markers")).m
      [] d = "max" ->
           detect_max(OnlyText(e, "grade_tokens")).m
           + detect_max(OnlyText(e, "times")).m
           + detect_max(OnlyText(e, "team_scores")).m
      [] d = "adam" ->
           detect_adam([e EXCEPT !.data_rows = 0]).m
           + detect_adam([e EXCEPT !.best_header_match = 0]).m
           - detect_adam([e EXCEPT !.data_rows = 0,
                                   !.best_header_match = 0]).m
      [] d = "katie" ->
           detect_katie([e EXCEPT !.has_event_table = FALSE, !.links = 0]).m
           + detect_katie([e EXCEPT !.best_hit = 0, !.links = 0]).m
           + detect_katie([e EXCEPT !.best_hit = 0,
                                    !.has_event_table = FALSE]).m
      [] d = "adam_module" ->
           detect_adam_module([e EXCEPT !.container = FALSE]).m
           + detect_adam_module([e EXCEPT !.filter_chain = 0]).m

\* the detector applies its competing-dialect penalty to e
Penalised(d, e) ==
    \/ d = "cole" /\ e.grade_tokens >= 3
    \/ d = "max" /\ e.numeric_grades >= 3

(***************************************************************************)
(* C18, as stated: for every detector the weights its signals add sum to   *)
(* at most 1.0 before the cap, and the cap is applied to the finished sum: *)
(* the returned score is min(sum, 1.0).                                    *)
(***************************************************************************)
C18_stated ==
    (dpc = "returned" /\ ~Penalised(dname, dev)) =>
        /\ SignalSum(dname, dev) <= 1000
        /\ dscore.m = IF SignalSum(dname, dev) > 1000 THEN 1000
                      ELSE SignalSum(dname, dev)

------------------------------------------------------------------------------
(***************************************************************************)
(* Properties of the extractors, checked under SpecExtract.                *)
(***************************************************************************)
Returned(name) == xpc = "returned" /\ xname = name

Rows(frame) == {frame[i] : i \in 1..Len(frame)}

\* C8 as stated: every row extract_table_data appends to the individual
\* results has an all-digit place, an athlete value and a finish value, and
\* every row it appends to the team results has an all-digit place.
C8_stated ==
    Returned("extract_table_data") =>
       /\ \A r \in Rows(xout.individual) :
             /\ "place" \in DOMAIN r /\ r.place \in DigitTexts
             /\ "athlete" \in DOMAIN r /\ r.athlete # ""
             /\ "finish" \in DOMAIN r /\ r.finish # ""
       /\ \A r \in Rows(xout.team) :
             "place" \in DOMAIN r /\ r.place \in DigitTexts

\* the athletes of the records of the document whose place token is not
\* numeric: the names on the pre lines that start with a word, and the
\* athlete texts of the table rows that have no cell with an all-digit
\* place
NonNumericPlaceAthletes ==
    {l[k].v : <<l, k>> \in
        {<<m, n>> \in Range(doc.pre) \X (1..8) :
            /\ m[1].k \notin {"num", "numdot"}
            /\ n <= Len(m) /\ m[n].v \in Range(Names)}}
    \cup
    {c.text : <<row, c>> \in
        {<<tr, cell>> \in
            UNION {Range(all_tr(t)) \X Range(Flatten(all_tr(t))) :
                      t \in Range(doc.tables)} :
            /\ cell \in Range(tr)
            /\ "athlete" \in Range(cell.class)
            /\ ~\E pl \in Range(tr) :
                  "place" \in Range(pl.class) /\ pl.text \in DigitTexts}}

\* the athlete of a returned row: a text in a table row, the name words in
\* a row of a wrangler
AthleteOf(r) ==
    IF xname = "extract_table_data"
    THEN (IF "athlete" \in DOMAIN r THEN {r.athlete} ELSE {})
    ELSE Range(r.athlete)

\* C9: whichever extractor runs (wrangle_cole in line or packed mode,
\* wrangle_max, extract_table_data), every row of the individual table it
\* returns has a numeric place, and no record whose place token is not
\* numeric ("DNF", empty, missing) has its athlete in a returned row.
C9_no_nonnumeric_place ==
    xpc = "returned" =>
       \A r \in Rows(xout.individual) :
          /\ "place" \in DOMAIN r /\ r.place \in DigitTexts
          /\ AthleteOf(r) \cap NonNumericPlaceAthletes = {}

\* wrangle_cole returned line-mode rows from a text that has a DNF record
\* with a time
C9_witness ==
    /\ Returned("wrangle_cole")
    /\ \E l \in Range(doc.pre) :
          /\ l[1] = Word("DNF")
          /\ \E k \in 1..Len(l) : l[k].k = "time"
    /\ Len(cole_line_rows(doc.pre)) >= 3
    /\ Len(xout.individual) >= 3

\* number of header names among the class tokens of the cells of table t
Hits(t, headers) ==
    Cardinality({h \in Range(headers) :
                   \E row \in Range(t.thead) \cup Range(t.body) :
                      \E c \in Range(row) : h \in Range(c.class)})

RECURSIVE RowCountSum(_)
RowCountSum(meta) ==
    IF meta = <<>> THEN 0
    ELSE Head(meta).row_count + RowCountSum(Tail(meta))

\* C10: extract_table_data classifies each table from the class tokens of
\* its cells: individual when at least 3 individual header names are among
\* them and at least as many as team header names; otherwise team when at
\* least 3 team header names are among them; otherwise unknown, and then
\* the call still returns, the table has row count 0 and adds no row.
C10_classification ==
    Returned("extract_table_data") /\ doc.tables # <<>> =>
       /\ Len(xout.meta) = Len(doc.tables)
       /\ \A i \in 1..Len(doc.tables) :
             LET indiv == Hits(doc.tables[i], INDIVIDUAL_TABLE_HEADERS)
                 team  == Hits(doc.tables[i], TEAM_TABLE_HEADERS)
             IN  /\ xout.meta[i].table_index = i
                 /\ xout.meta[i].table_type =
                       IF indiv >= 3 /\ indiv >= team THEN "individual"
                       ELSE IF team >= 3 THEN "team"
                       ELSE "unknown_headers"
                 /\ (~(indiv >= 3 /\ indiv >= team) /\ ~(team >= 3))
                       => xout.meta[i].row_count = 0
       /\ Len(xout.individual) + Len(xout.team) = RowCountSum(xout.meta)

\* a table with two individual header classes and a row with place "1" was
\* classified unknown and added no row
C10_witness ==
    /\ Returned("extract_table_data")
    /\ doc.tables = <<ClassTable({"place", "athlete"}, FALSE)>>
    /\ xout.meta[1].table_type = "unknown_headers"
    /\ xout.individual = <<>> /\ xout.team = <<>>

\* C11: for a document with n >= 1 table elements extract_table_data
\* returns exactly n metadata rows, row i for the i-th table of the document
\* with table_index i, tables of unknown type included with row count 0;
\* for a document without a table element it returns exactly one metadata
\* row, of type "no_tables".
C11_metadata_rows ==
    Returned("extract_table_data") =>
       IF doc.tables = <<>>
       THEN /\ Len(xout.meta) = 1
            /\ xout.meta[1].table_type = "no_tables"
            /\ xout.meta[1].row_count = 0
       ELSE /\ Len(xout.meta) = Len(doc.tables)
            /\ \A i \in 1..Len(doc.tables) :
                  /\ xout.meta[i].table_index = i
                  /\ xout.meta[i].table_type \in
                        {"individual", "team", "unknown_headers"}
                  /\ (xout.meta[i].table_type = "unknown_headers")
                        = (Hits(doc.tables[i], INDIVIDUAL_TABLE_HEADERS) < 3
                           /\ Hits(doc.tables[i], TEAM_TABLE_HEADERS) < 3)
                  /\ xout.meta[i].table_type = "unknown_headers"
                        => xout.meta[i].row_count = 0

\* three tables, the second of unknown type between an individual and a
\* team table: three metadata rows in that order
C11_witness ==
    /\ Returned("extract_table_data")
    /\ Len(doc.tables) = 3
    /\ doc.tables[2] = ClassTable({"place", "athlete"}, FALSE)
    /\ Len(xout.meta) = 3
    /\ xout.meta[1].table_type = "individual"
    /\ xout.meta[2].table_type = "unknown_headers"
    /\ xout.meta[3].table_type = "team"

\* C12 as stated: on the pre block of 12 lines "<place> <first> <last>
\* <grade> <time> <team>" with places 1..12, wrangle_cole returns 12
\* records in the order 1..12, the first with place 1, athlete "Jane Doe",
\* grade 9, finish "12:46.8" and team "Lincoln HS".
C12_stated ==
    Returned("wrangle_cole") /\ doc.pre = PlaceNameGradePre =>
       /\ Len(xout.individual) = 12
       /\ \A i \in 1..12 : xout.individual[i].place = PlaceTexts[i]
       /\ xout.individual[1].athlete = <<"Jane", "Doe">>
       /\ xout.individual[1].grade = "9"
       /\ xout.individual[1].finish = "12:46.8"
       /\ xout.individual[1].team = <<"Lincoln", "HS">>

\* the text of the first td cell of the row that carries class cls, "" when
\* there is none
CellText(row, cls) ==
    LET S == {i \in 1..Len(row) :
                row[i].tag = "td" /\ cls \in Range(row[i].class)}
    IN  IF S = {} THEN "" ELSE row[Min(S)].text

\* C17 as stated: a line or row that does not fit the record pattern costs
\* only itself.  Every line of the pre block that fits the line pattern
\* has its record in what wrangle_cole returns, also when fewer than 3
\* lines fit; every row of a table that has a numeric place (and, in an
\* individual table, an athlete and a finish) has its record in what
\* extract_table_data returns.
C17_stated ==
    /\ (/\ Returned("wrangle_cole")
        /\ \E k \in 1..Len(doc.pre) : cole_line_pattern(doc.pre[k]) = <<>>) =>
          \A j \in 1..Len(doc.pre) :
             cole_line_pattern(doc.pre[j]) # <<>> =>
                \E r \in Rows(xout.individual) :
                   /\ r.place = cole_line_pattern(doc.pre[j])[1].place
                   /\ r.athlete = cole_line_pattern(doc.pre[j])[1].athlete
                   /\ r.finish = cole_line_pattern(doc.pre[j])[1].finish
    /\ Returned("extract_table_data") =>
          \A i \in 1..Len(doc.tables) :
             \A row \in Range(data_tr(doc.tables[i])) :
                /\ (/\ xout.meta[i].table_type = "individual"
                    /\ CellText(row, "place") \in DigitTexts
                    /\ CellText(row, "athlete") # ""
                    /\ CellText(row, "finish") # "")
                      => \E r \in Rows(xout.individual) :
                            /\ r["place"] = CellText(row, "place")
                            /\ r["athlete"] = CellText(row, "athlete")
                            /\ r["finish"] = CellText(row, "finish")
                /\ (/\ xout.meta[i].table_type = "team"
                    /\ CellText(row, "place") \in DigitTexts)
                      => \E r \in Rows(xout.team) :
                            r["place"] = CellText(row, "place")

\* the lines of the pre block that fit the line pattern of wrangle_cole
ColeLines == {k \in 1..Len(doc.pre) : cole_line_pattern(doc.pre[k]) # <<>>}

\* the i-th smallest element of the set S of integers
Nth(S, i) == CHOOSE k \in S : Cardinality({j \in S : j < k}) = i - 1

(***************************************************************************)
(* C19: wrangle_cole on a pre block returns, when 3 or more of its lines   *)
(* fit the line pattern, exactly the records of those lines in line order; *)
(* when fewer than 3 fit, exactly the matches of the packed pattern over   *)
(* the flattened text, the records of the fitting lines being dropped,     *)
(* and an empty table when the packed pattern matches nothing.             *)
(***************************************************************************)
C19_line_then_packed ==
    (xpc = "returned" /\ xname = "wrangle_cole" /\ doc.pre_blocks > 0) =>
        IF Cardinality(ColeLines) >= 3
        THEN /\ Len(xout.individual) = Cardinality(ColeLines)
             /\ \A i \in 1..Cardinality(ColeLines) :
                   <<xout.individual[i]>> =
                       cole_line_pattern(doc.pre[Nth(ColeLines, i)])
        ELSE /\ xout.individual = packed_finditer(Flatten(doc.pre), 1)
             /\ (\A i \in 1..Len(Flatten(doc.pre)) :
                    ~packed_pattern(Flatten(doc.pre), i).ok)
                   => xout.individual = <<>>

\* two lines fit the line pattern, and the result is the one record the
\* packed pattern finds
C19_witness ==
    /\ xpc = "returned" /\ xname = "wrangle_cole"
    /\ Cardinality(ColeLines) = 2
    /\ Len(xout.individual) = 1
    /\ \E k \in ColeLines :
          cole_line_pattern(doc.pre[k]) # <<xout.individual[1]>>
             /\ Len(doc.pre[k]) > 0 /\ doc.pre[k][1].k = "num"

\* the lines of the pre block that fit the record pattern of wrangle_max
MaxLineSet == {k \in 1..Len(doc.pre) : max_line_pattern(doc.pre[k]) # <<>>}

(***************************************************************************)
(* C20, as stated: wrangle_max on a pre block returns one record for every *)
(* line that fits its record pattern, in line order; a block of N >= 2     *)
(* record lines gives N records.                                           *)
(***************************************************************************)
C20_stated ==
    (xpc = "returned" /\ xname = "wrangle_max" /\ doc.pre_blocks > 0) =>
        /\ Len(xout.individual) = Cardinality(MaxLineSet)
        /\ \A i \in 1..Cardinality(MaxLineSet) :
              <<xout.individual[i]>> =
                  max_line_pattern(doc.pre[Nth(MaxLineSet, i)])

------------------------------------------------------------------------------
(***************************************************************************)
(* Properties of the batch loop, checked under SpecBatch.                  *)
(***************************************************************************)
\* the fetch or the extraction of entry u raises
Faulty(i) ==
    urls[i].fault = "fetch" \/ fetch_and_extract(urls[i], i).raised

\* C7: whichever URLs of the list have a fetch or an extraction that
\* raises, the URLs are processed in order to the end of the list: while a
\* URL is left, a step processes exactly the next one and stays in the
\* loop, and when that URL is faulty the step appends one error metadata
\* row for it and leaves the accumulated individual and team results as
\* they were; the function returns only when no URL is left.
C7_batch_continues ==
    /\ [](bpc \in {"loop", "returned"})
    /\ [](bpc = "returned" => done = Len(urls))
    /\ [][bpc = "loop" /\ done < Len(urls) =>
            /\ done' = done + 1
            /\ bpc' = "loop"
            /\ urls' = urls
            /\ Faulty(done + 1) =>
                  /\ individual_results' = individual_results
                  /\ team_results' = team_results
                  /\ Len(metadata_results') = Len(metadata_results) + 1
                  /\ SubSeq(metadata_results', 1, Len(metadata_results))
                        = metadata_results
                  /\ LET row == metadata_results'[Len(metadata_results')]
                     IN  /\ row.url = done + 1
                         /\ row.assigned_parser = "error"
                         /\ row.row_count = 0]_vars

\* three URLs were processed: rows came from the first, the second was
\* faulty and left one error row, the third added its rows after it
C7_witness ==
    /\ bpc = "returned" /\ done = 3
    /\ ~Faulty(1) /\ Faulty(2) /\ ~Faulty(3)
    /\ \E i \in 1..Len(metadata_results) :
          /\ metadata_results[i].assigned_parser = "error"
          /\ metadata_results[i].url = 2
          /\ i > 1 /\ i < Len(metadata_results)
          /\ metadata_results[i - 1].url = 1
          /\ metadata_results[i + 1].url = 3
    /\ Len(individual_results) >= 2

====
